---- MODULE Spec2Model ----
(***************************************************************************)
(* Authentication / session flow of the VCET AI backend (src/main.py).     *)
(*                                                                         *)
(* The route handlers are plain `def` functions, so the framework runs     *)
(* them on a pool of worker threads: requests overlap, and the only        *)
(* atomic steps are the individual document-store calls.  Every handler is *)
(* therefore a small process: one action per store call, each action also  *)
(* carrying the local computation that follows the call up to the next     *)
(* store call or the return.                                               *)
(*                                                                         *)
(* Time is counted in minutes.  Strings are TLA+ strings, documents and    *)
(* JSON bodies are records, collections are sequences in natural           *)
(* (insertion) order.                                                      *)
(***************************************************************************)
EXTENDS Integers, Sequences, FiniteSets, TLC

(* ------------------------------ bounds --------------------------------- *)

\* worker threads serving requests at the same time
NumWorkers == 2
\* cap on the documents of the users collection
MaxUsers == 2
\* cap on the documents of the otp_codes collection
MaxOtps == 2

\* request inputs
Emails == {"a@x.com", "b@x.com"}
Names == {"A"}
Passwords == {"p1", "p2"}
\* the passwords users choose at signup (the others are wrong guesses)
Chosen == {"p1"}
\* the salts bcrypt may draw
Salts == {"s1"}

(* --------------------------- program constants ------------------------- *)

JWT_SECRET == "dev-secret-key"
JWT_ALG == "HS256"
\* default of create_jwt's expires_minutes
JWT_EXPIRES_MINUTES == 60 * 24
\* timedelta(minutes=5) of every OTP challenge
OTP_EXPIRES_MINUTES == 5
\* raw_otp of signup, login and resend_otp
RAW_OTP == "123456"

\* the codes a client may submit to verify-otp
OtpInputs == {RAW_OTP, "000000"}

\* the instants at which the clock is read: for what is created at minute 0,
\* before, at and after the expiry of a challenge, and before and at the
\* expiry of a token
Instants == {0, OTP_EXPIRES_MINUTES, JWT_EXPIRES_MINUTES}

Workers == 1 .. NumWorkers

VARIABLES
    users,          \* db["users"]: sequence of user documents
    otp_codes,      \* db["otp_codes"]: sequence of challenge documents
    conversations,  \* db["conversations"]: sequence of conversation documents
    now,            \* datetime.now(timezone.utc), in minutes
    pc,             \* pc[w]: the position of worker w inside its handler
    req,            \* req[w]: the request worker w serves (route and body)
    loc,            \* loc[w]: the handler's local variables
    last            \* the request that finished last, with its response

vars == <<users, otp_codes, conversations, now, pc, req, loc, last>>

(* ------------------------------ helpers -------------------------------- *)

\* the bcrypt digest of `secret` under `salt`: the modular-crypt string
\* carrying the salt and the checksum of (salt, secret)
Bcrypt(secret, salt) == "$2b$" \o salt \o "$" \o secret

\* hash_password storing the password as it came
hash_password_plain(password, salt) == password

\* hash_password: the salt is random per call, the caller draws it
hash_password(password, salt) == Bcrypt(password, salt)

\* verify_password accepting any password
verify_password_any(plain, hashed) == TRUE

\* verify_password: re-hash `plain` under the salt the digest carries
verify_password(plain, hashed) == \E salt \in Salts : hashed = Bcrypt(plain, salt)

\* HMAC of the signing input under a key
Sign(header, payload, key) == <<"hmac", key, header, payload>>

\* jwt.encode: header, payload and signature segments
jwt_encode(payload, key, alg) ==
    LET header == [alg |-> alg, typ |-> "JWT"]
    IN  <<header, payload, Sign(header, payload, key)>>

\* create_jwt putting the email where the user id belongs
create_jwt_swapped(payload, t) ==
    jwt_encode([user_id |-> payload.email, email |-> payload.email,
                exp |-> t + JWT_EXPIRES_MINUTES], JWT_SECRET, JWT_ALG)

\* create_jwt with the default expires_minutes, called at time t
create_jwt(payload, t) ==
    LET exp == t + JWT_EXPIRES_MINUTES
    IN  jwt_encode([user_id |-> payload.user_id, email |-> payload.email, exp |-> exp],
                   JWT_SECRET, JWT_ALG)

\* decode_jwt with the expiry left unverified
decode_jwt_noexp(token, t) ==
    IF Len(token) # 3 THEN [ok |-> FALSE, error |-> "DecodeError"]
    ELSE IF token[3] # Sign(token[1], token[2], JWT_SECRET)
         THEN [ok |-> FALSE, error |-> "InvalidSignatureError"]
    ELSE [ok |-> TRUE, payload |-> token[2]]

\* decode_jwt at time t: the payload, or the error jwt.decode raises
decode_jwt(token, t) ==
    IF Len(token) # 3 THEN [ok |-> FALSE, error |-> "DecodeError"]
    ELSE IF token[1].alg # JWT_ALG THEN [ok |-> FALSE, error |-> "InvalidAlgorithmError"]
    ELSE IF token[3] # Sign(token[1], token[2], JWT_SECRET)
         THEN [ok |-> FALSE, error |-> "InvalidSignatureError"]
    ELSE IF "exp" \in DOMAIN token[2] /\ token[2].exp <= t
         THEN [ok |-> FALSE, error |-> "ExpiredSignatureError"]
    ELSE [ok |-> TRUE, payload |-> token[2]]

\* A header value is a sequence of atoms, each a run of whitespace or a word;
\* a word is the sequence of its dot-separated segments (a plain word has
\* one, a JWT three).
Ws == [ws |-> TRUE, v |-> <<" ">>]
Word(v) == [ws |-> FALSE, v |-> v]

\* str.lower on the scheme words that occur
Lower(word) ==
    IF Len(word) # 1 THEN word
    ELSE CASE word[1] = "Bearer" -> <<"bearer">>
           [] word[1] = "BEARER" -> <<"bearer">>
           [] word[1] = "Basic"  -> <<"basic">>
           [] OTHER              -> word

\* str.split(): the words, whitespace dropped
Split(header) ==
    LET words == SelectSeq(header, LAMBDA a : ~a.ws)
    IN  [i \in 1 .. Len(words) |-> words[i].v]

\* dict.get(key) followed by `not value`: absent or empty
Falsy(payload, key) == key \notin DOMAIN payload \/ payload[key] = ""

\* get_current_user with revocation: a token issued before the last update
\* of its user is turned down
get_current_user_revoking(authorization, t) ==
    IF authorization = <<>>
    THEN [status |-> 401, detail |-> "Missing Authorization header"]
    ELSE LET parts == Split(authorization)
             fail == [status |-> 401, detail |-> "Invalid or expired token"]
         IN  IF Len(parts) # 2 THEN fail
             ELSE IF Lower(parts[1]) # <<"bearer">> THEN fail
             ELSE LET dec == decode_jwt(parts[2], t)
                  IN  IF ~dec.ok THEN fail
                      ELSE IF Falsy(dec.payload, "user_id") \/ Falsy(dec.payload, "email")
                           THEN fail
                      ELSE IF \E i \in 1 .. Len(users) :
                                  /\ users[i].email = dec.payload.email
                                  /\ users[i].updated_at > dec.payload.exp - JWT_EXPIRES_MINUTES
                           THEN fail
                      ELSE [status |-> 200, payload |-> dec.payload]

\* get_current_user at time t: the payload, or the HTTPException raised
get_current_user(authorization, t) ==
    IF authorization = <<>>
    THEN [status |-> 401, detail |-> "Missing Authorization header"]
    ELSE LET parts == Split(authorization)
             fail == [status |-> 401, detail |-> "Invalid or expired token"]
         IN  IF Len(parts) # 2 THEN fail
             ELSE IF Lower(parts[1]) # <<"bearer">> THEN fail
             ELSE LET dec == decode_jwt(parts[2], t)
                  IN  IF ~dec.ok THEN fail
                      ELSE IF Falsy(dec.payload, "user_id") \/ Falsy(dec.payload, "email")
                           THEN fail
                      ELSE [status |-> 200, payload |-> dec.payload]

\* the positions of the documents of a collection with the given email
Matching(coll, email) == {i \in 1 .. Len(coll) : coll[i].email = email}

Min(S) == CHOOSE x \in S : \A y \in S : x <= y

\* collection.find_one({"email": email}): the first match in natural order,
\* as a set (empty when there is none)
find_one(coll, email) ==
    IF Matching(coll, email) = {} THEN {} ELSE {coll[Min(Matching(coll, email))]}

\* the sorted find_one with the sort ascending: the oldest challenge
find_latest_ascending(coll, email) ==
    {coll[i] : i \in {j \in Matching(coll, email) :
                         \A k \in Matching(coll, email) :
                             coll[k].created_at >= coll[j].created_at}}

\* find_one({"email": email}, sort=[("created_at", -1)]): the documents the
\* sort may put first (ties on created_at are in no defined order)
find_latest(coll, email) ==
    {coll[i] : i \in {j \in Matching(coll, email) :
                         \A k \in Matching(coll, email) :
                             coll[k].created_at <= coll[j].created_at}}

\* an insert that replaces the documents of the same email
insert_one_replacing(coll, doc) ==
    Append(SelectSeq(coll, LAMBDA d : d.email # doc.email), doc)

\* collection.insert_one: the store assigns the next ObjectId
insert_one(coll, doc) == Append(coll, doc)

\* the update without its filter: every user is marked
update_one_unfiltered(coll, email, t) ==
    [i \in 1 .. Len(coll) |-> [coll[i] EXCEPT !.is_verified = TRUE, !.updated_at = t]]

\* users.update_one({"email": email}, {"$set": {is_verified, updated_at}})
update_one(coll, email, t) ==
    IF Matching(coll, email) = {} THEN coll
    ELSE [coll EXCEPT ![Min(Matching(coll, email))] =
             [@ EXCEPT !.is_verified = TRUE, !.updated_at = t]]

\* str(user["_id"])
Str(oid) == ToString(oid)

\* a challenge document that stores the hash of a code of its own
otp_doc_fresh(email, salt, t) ==
    [email |-> email, otp |-> hash_password("000000", salt),
     created_at |-> t, expires_at |-> t + OTP_EXPIRES_MINUTES]

\* the OTP challenge document signup, login and resend_otp insert
otp_doc(email, salt, t) ==
    [email |-> email, otp |-> hash_password(RAW_OTP, salt),
     created_at |-> t, expires_at |-> t + OTP_EXPIRES_MINUTES]

HTTPException(status, detail) == [status |-> status, detail |-> detail]
Ok(body) == [status |-> 200, body |-> body]

user_public(user) == [id |-> Str(user._id), name |-> user.name, email |-> user.email]

NoReq == [route |-> "none"]
NoLoc == [none |-> TRUE]
NoLast == [req |-> NoReq, resp |-> [status |-> 0]]

Running(w) == pc[w] # "idle"
Inflight(routes) == Cardinality({w \in Workers : Running(w) /\ req[w].route \in routes})

\* room left in the bounded collections for the insert a handler goes on to
RoomForUser == Len(users) + Inflight({"signup"}) < MaxUsers
RoomForOtp == Len(otp_codes) + Inflight({"signup", "login", "resend-otp"}) < MaxOtps

\* the handler returns or raises: the response goes out, the worker is free
Finish(w, r) ==
    /\ pc' = [pc EXCEPT ![w] = "idle"]
    /\ req' = [req EXCEPT ![w] = NoReq]
    /\ loc' = [loc EXCEPT ![w] = NoLoc]
    /\ last' = [req |-> req[w], resp |-> r]

\* the handler goes on to its next store call
Goto(w, label, l) ==
    /\ pc' = [pc EXCEPT ![w] = label]
    /\ loc' = [loc EXCEPT ![w] = l]
    /\ UNCHANGED <<req, last>>

\* the handler raises or returns before a second store call
Reply(w, r, response) ==
    /\ last' = [req |-> r, resp |-> response]
    /\ UNCHANGED <<pc, req, loc>>

\* the handler goes on from its first store call to the next
Proceed(w, r, label, l) ==
    /\ pc' = [pc EXCEPT ![w] = label]
    /\ req' = [req EXCEPT ![w] = r]
    /\ loc' = [loc EXCEPT ![w] = l]
    /\ UNCHANGED last

(* ------------------------------ signup --------------------------------- *)

SignupBody == [route : {"signup"}, name : Names, email : Emails, password : Chosen]

\* signup without the lookup of an existing user
SignupFind_unchecked(w) ==
    /\ ~Running(w)
    /\ RoomForUser /\ RoomForOtp
    /\ \E body \in SignupBody, salt \in Salts :
           Proceed(w, body, "signup_insert_user",
                   [user_doc |-> [name |-> body.name, email |-> body.email,
                                  password |-> hash_password(body.password, salt),
                                  is_verified |-> FALSE,
                                  created_at |-> now, updated_at |-> now]])
    /\ UNCHANGED <<users, otp_codes, conversations, now>>

\* a free worker takes a signup request:
\* existing = db["users"].find_one(...); the 400, or hash and build user_doc
SignupFind(w) ==
    /\ ~Running(w)
    /\ \E body \in SignupBody :
           IF find_one(users, body.email) # {}
           THEN Reply(w, body, HTTPException(400, "Email already registered"))
           ELSE \E salt \in Salts :
                   /\ RoomForUser /\ RoomForOtp
                   /\ Proceed(w, body, "signup_insert_user",
                              [user_doc |-> [name |-> body.name, email |-> body.email,
                                             password |-> hash_password(body.password, salt),
                                             is_verified |-> FALSE,
                                             created_at |-> now, updated_at |-> now]])
    /\ UNCHANGED <<users, otp_codes, conversations, now>>

\* db["users"].insert_one(user_doc)
SignupInsertUser(w) ==
    /\ pc[w] = "signup_insert_user"
    /\ users' = insert_one(users, [_id |-> Len(users) + 1] @@ loc[w].user_doc)
    /\ Goto(w, "signup_insert_otp", NoLoc)
    /\ UNCHANGED <<otp_codes, conversations, now>>

\* db["otp_codes"].insert_one(...); return
SignupInsertOtp(w) ==
    /\ pc[w] = "signup_insert_otp"
    /\ \E salt \in Salts :
           otp_codes' = insert_one(otp_codes, otp_doc(req[w].email, salt, now))
    /\ Finish(w, Ok([success |-> TRUE, message |-> "OTP sent to email",
                     email |-> req[w].email]))
    /\ UNCHANGED <<users, conversations, now>>

(* ------------------------------- login --------------------------------- *)

LoginBody == [route : {"login"}, email : Emails, password : Passwords]

\* login without the is_verified branch: a token for any correct password
LoginFind_unguarded(w) ==
    /\ ~Running(w)
    /\ \E body \in LoginBody :
           IF find_one(users, body.email) = {}
           THEN Reply(w, body, HTTPException(400, "Invalid credentials"))
           ELSE \E user \in find_one(users, body.email) :
                   IF ~verify_password(body.password, user.password)
                   THEN Reply(w, body, HTTPException(400, "Invalid credentials"))
                   ELSE Reply(w, body,
                              Ok([success |-> TRUE, verified |-> TRUE,
                                  token |-> create_jwt([user_id |-> Str(user._id),
                                                        email |-> user.email], now),
                                  user |-> user_public(user)]))
    /\ UNCHANGED <<users, otp_codes, conversations, now>>

\* login with the last-login timestamp wired in: the verified branch stamps
\* the user document
LoginFind_touching(w) ==
    /\ ~Running(w)
    /\ \E body \in LoginBody :
           IF find_one(users, body.email) = {}
           THEN Reply(w, body, HTTPException(400, "Invalid credentials")) /\ users' = users
           ELSE \E user \in find_one(users, body.email) :
                   IF ~verify_password(body.password, user.password)
                   THEN /\ Reply(w, body, HTTPException(400, "Invalid credentials"))
                        /\ users' = users
                   ELSE IF ~user.is_verified
                   THEN /\ RoomForOtp /\ Proceed(w, body, "login_insert_otp", NoLoc)
                        /\ users' = users
                   ELSE /\ Reply(w, body,
                                 Ok([success |-> TRUE, verified |-> TRUE,
                                     token |-> create_jwt([user_id |-> Str(user._id),
                                                           email |-> user.email], now),
                                     user |-> user_public(user)]))
                        /\ users' = [users EXCEPT ![Min(Matching(users, body.email))] =
                                         [last_login |-> now] @@ @]
    /\ UNCHANGED <<otp_codes, conversations, now>>

\* a free worker takes a login request:
\* user = db["users"].find_one(...); the credential checks; the verified branch
LoginFind(w) ==
    /\ ~Running(w)
    /\ \E body \in LoginBody :
           IF find_one(users, body.email) = {}
           THEN Reply(w, body, HTTPException(400, "Invalid credentials"))
           ELSE \E user \in find_one(users, body.email) :
                   IF ~verify_password(body.password, user.password)
                   THEN Reply(w, body, HTTPException(400, "Invalid credentials"))
                   ELSE IF ~user.is_verified
                   THEN RoomForOtp /\ Proceed(w, body, "login_insert_otp", NoLoc)
                   ELSE Reply(w, body,
                              Ok([success |-> TRUE, verified |-> TRUE,
                                  token |-> create_jwt([user_id |-> Str(user._id),
                                                        email |-> user.email], now),
                                  user |-> user_public(user)]))
    /\ UNCHANGED <<users, otp_codes, conversations, now>>

\* db["otp_codes"].insert_one(...); return verified: False
LoginInsertOtp(w) ==
    /\ pc[w] = "login_insert_otp"
    /\ \E salt \in Salts :
           otp_codes' = insert_one(otp_codes, otp_doc(req[w].email, salt, now))
    /\ Finish(w, Ok([success |-> TRUE, verified |-> FALSE, message |-> "OTP sent to email"]))
    /\ UNCHANGED <<users, conversations, now>>

(* ----------------------------- verify-otp ------------------------------ *)

VerifyOtpBody == [route : {"verify-otp"}, email : Emails, otp : OtpInputs]

\* the checks with the expiry comparison turned round
otp_check_reversed(record, otp, t) ==
    IF record.expires_at > t THEN HTTPException(400, "OTP expired")
    ELSE IF ~verify_password(otp, record.otp) THEN HTTPException(400, "Invalid OTP")
    ELSE Ok([passed |-> TRUE])

\* the result of the three checks on the record the sorted find_one returned
otp_check(record, otp, t) ==
    IF record.expires_at < t THEN HTTPException(400, "OTP expired")
    ELSE IF ~verify_password(otp, record.otp) THEN HTTPException(400, "Invalid OTP")
    ELSE Ok([passed |-> TRUE])

\* a free worker takes a verify-otp request:
\* record = db["otp_codes"].find_one(..., sort=created_at desc); the checks
VerifyFind(w) ==
    /\ ~Running(w)
    /\ \E body \in VerifyOtpBody :
           IF find_latest(otp_codes, body.email) = {}
           THEN Reply(w, body, HTTPException(400, "OTP not found"))
           ELSE \E record \in find_latest(otp_codes, body.email) :
                   IF otp_check(record, body.otp, now).status # 200
                   THEN Reply(w, body, otp_check(record, body.otp, now))
                   ELSE Proceed(w, body, "verify_update", NoLoc)
    /\ UNCHANGED <<users, otp_codes, conversations, now>>

\* verify_otp going on to the token without marking the user
VerifyUpdate_skipped(w) ==
    /\ pc[w] = "verify_update"
    /\ Goto(w, "verify_fetch", NoLoc)
    /\ UNCHANGED <<users, otp_codes, conversations, now>>

\* db["users"].update_one(..., {"$set": {"is_verified": True, "updated_at": now}})
VerifyUpdate(w) ==
    /\ pc[w] = "verify_update"
    /\ users' = update_one(users, req[w].email, now)
    /\ Goto(w, "verify_fetch", NoLoc)
    /\ UNCHANGED <<otp_codes, conversations, now>>

\* verify_otp deleting the challenges of the email once it has succeeded
VerifyFetch_consuming(w) ==
    /\ pc[w] = "verify_fetch"
    /\ \E user \in find_one(users, req[w].email) :
           Finish(w, Ok([success |-> TRUE,
                         token |-> create_jwt([user_id |-> Str(user._id),
                                               email |-> user.email], now),
                         user |-> user_public(user)]))
    /\ otp_codes' = SelectSeq(otp_codes, LAMBDA c : c.email # req[w].email)
    /\ UNCHANGED <<users, conversations, now>>

\* user = db["users"].find_one(...); create the token; return
\* (user["_id"] on None is an unhandled TypeError: a 500)
VerifyFetch(w) ==
    /\ pc[w] = "verify_fetch"
    /\ IF find_one(users, req[w].email) = {}
       THEN Finish(w, HTTPException(500, "Internal Server Error"))
       ELSE \E user \in find_one(users, req[w].email) :
               Finish(w, Ok([success |-> TRUE,
                             token |-> create_jwt([user_id |-> Str(user._id),
                                                   email |-> user.email], now),
                             user |-> user_public(user)]))
    /\ UNCHANGED <<users, otp_codes, conversations, now>>

(* ----------------------------- resend-otp ------------------------------ *)

ResendOtpBody == [route : {"resend-otp"}, email : Emails]

\* resend-otp without the lookup of the user
ResendFind_unchecked(w) ==
    /\ ~Running(w)
    /\ \E body \in ResendOtpBody :
           RoomForOtp /\ Proceed(w, body, "resend_insert", NoLoc)
    /\ UNCHANGED <<users, otp_codes, conversations, now>>

\* a free worker takes a resend-otp request: user = db["users"].find_one(...)
ResendFind(w) ==
    /\ ~Running(w)
    /\ \E body \in ResendOtpBody :
           IF find_one(users, body.email) = {}
           THEN Reply(w, body, HTTPException(400, "Email not registered"))
           ELSE RoomForOtp /\ Proceed(w, body, "resend_insert", NoLoc)
    /\ UNCHANGED <<users, otp_codes, conversations, now>>

\* db["otp_codes"].insert_one(...); return
ResendInsert(w) ==
    /\ pc[w] = "resend_insert"
    /\ \E salt \in Salts :
           otp_codes' = insert_one(otp_codes, otp_doc(req[w].email, salt, now))
    /\ Finish(w, Ok([success |-> TRUE, message |-> "OTP sent"]))
    /\ UNCHANGED <<users, conversations, now>>

(* ------------------------- protected listing --------------------------- *)

\* the token a client holds: that of the response delivered last
HasToken(r) == r.status = 200 /\ "token" \in DOMAIN r.body

Issued == IF HasToken(last.resp) THEN {last.resp.body.token} ELSE {}

\* a token a client made from one it holds, re-signed with a key of its own
\* after pushing the expiry
Altered(token) ==
    LET payload == [token[2] EXCEPT !.exp = @ + 1]
    IN  <<token[1], payload, Sign(token[1], payload, "other-key")>>

\* a token signed with the server's key that lacks a required claim
Incomplete(token) ==
    jwt_encode([email |-> token[2].email, exp |-> token[2].exp], JWT_SECRET, JWT_ALG)

\* the Authorization header values a client may send
Headers ==
    {<<>>, <<Word(<<"Bearer">>)>>}
    \cup UNION {{ <<Word(<<scheme>>), Ws, Word(token)>> :
                    scheme \in {"Bearer", "bearer", "Basic"} }
                \cup {<<Word(<<"Bearer">>), Ws, Word(t)>> :
                         t \in {Altered(token), Incomplete(token)}}
                : token \in Issued}

\* a conversations request arrives: the get_current_user dependency is
\* resolved before the handler body runs on a free worker
ConversationsAuth(w) ==
    /\ ~Running(w)
    /\ \E authorization \in Headers :
           LET r == [route |-> "conversations", authorization |-> authorization]
           IN  IF get_current_user(authorization, now).status # 200
               THEN Reply(w, r, get_current_user(authorization, now))
               ELSE Proceed(w, r, "conversations_find",
                            [user |-> get_current_user(authorization, now).payload])
    /\ UNCHANGED <<users, otp_codes, conversations, now>>

\* the find without its filter: the documents of every user
sorted_find_unscoped(coll, user_id) ==
    LET idx == 1 .. Len(coll)
        n == Cardinality(idx)
    IN  { [k \in 1 .. n |-> coll[f[k]]] :
            f \in {g \in [1 .. n -> idx] :
                      /\ \A a, b \in 1 .. n : a # b => g[a] # g[b]
                      /\ \A a, b \in 1 .. n :
                            a < b => coll[g[a]].updated_at >= coll[g[b]].updated_at} }

\* the documents of a user, in an order sort("updated_at", -1) may produce
sorted_find(coll, user_id) ==
    LET idx == {i \in 1 .. Len(coll) : coll[i].user_id = user_id}
        n == Cardinality(idx)
    IN  { [k \in 1 .. n |-> coll[f[k]]] :
            f \in {g \in [1 .. n -> idx] :
                      /\ \A a, b \in 1 .. n : a # b => g[a] # g[b]
                      /\ \A a, b \in 1 .. n :
                            a < b => coll[g[a]].updated_at >= coll[g[b]].updated_at} }

\* it["id"] = str(it.pop("_id"))
with_id(doc) ==
    [id |-> Str(doc._id), user_id |-> doc.user_id, title |-> doc.title,
     updated_at |-> doc.updated_at]

\* items = list(db["conversations"].find(...).sort("updated_at", -1)); return
ConversationsFind(w) ==
    /\ pc[w] = "conversations_find"
    /\ \E items \in sorted_find(conversations, loc[w].user.user_id) :
           Finish(w, Ok([success |-> TRUE,
                         conversations |-> [k \in 1 .. Len(items) |-> with_id(items[k])]]))
    /\ UNCHANGED <<users, otp_codes, conversations, now>>

(* ------------------------------- clock --------------------------------- *)

Tick ==
    /\ \E t \in Instants : t > now /\ now' = t
    /\ UNCHANGED <<users, otp_codes, conversations, pc, req, loc, last>>

(* --------------------------- specification ----------------------------- *)

\* conversations written by the chat routes, which this flow only reads
SeedConversations ==
    << [_id |-> 1, user_id |-> "1", title |-> "first", updated_at |-> 0],
       [_id |-> 2, user_id |-> "2", title |-> "other", updated_at |-> 1],
       [_id |-> 3, user_id |-> "1", title |-> "second", updated_at |-> 1] >>

Init ==
    /\ users = <<>>
    /\ otp_codes = <<>>
    /\ conversations = SeedConversations
    /\ now = 0
    /\ pc = [w \in Workers |-> "idle"]
    /\ req = [w \in Workers |-> NoReq]
    /\ loc = [w \in Workers |-> NoLoc]
    /\ last = NoLast

Next ==
    \/ \E w \in Workers : SignupFind(w)
    \/ \E w \in Workers : SignupInsertUser(w)
    \/ \E w \in Workers : SignupInsertOtp(w)
    \/ \E w \in Workers : LoginFind(w)
    \/ \E w \in Workers : LoginInsertOtp(w)
    \/ \E w \in Workers : VerifyFind(w)
    \/ \E w \in Workers : VerifyUpdate(w)
    \/ \E w \in Workers : VerifyFetch(w)
    \/ \E w \in Workers : ResendFind(w)
    \/ \E w \in Workers : ResendInsert(w)
    \/ \E w \in Workers : ConversationsAuth(w)
    \/ \E w \in Workers : ConversationsFind(w)
    \/ Tick

Spec == Init /\ [][Next]_vars

(* ------------------------------ properties ----------------------------- *)

\* the request worker w takes in this step: it stays with the worker when the
\* handler goes on, and goes out with the response when the handler is over
Taken(w) == IF pc'[w] # pc[w] THEN req'[w] ELSE last'.req

\* worker w takes the step of its handler that stands at `label`
Steps(w, label) == pc[w] = label /\ pc'[w] # label

Registered(email) == \E i \in 1 .. Len(users) : users[i].email = email

\* C1: no two documents of the users collection have the same email.
C1_UniqueEmail ==
    \A i, j \in 1 .. Len(users) : i # j => users[i].email # users[j].email

\* C2: a signup for an email that has a user document is answered 400
\* "Email already registered" and writes nothing: users and otp_codes are as
\* before and the handler is over.
C2_DuplicateSignupRejected ==
    [][\A w \in Workers :
          SignupFind(w) /\ Registered(Taken(w).email)
          => /\ last'.resp = [status |-> 400, detail |-> "Email already registered"]
             /\ users' = users
             /\ otp_codes' = otp_codes
             /\ pc' = pc]_vars

C2_Witness ==
    /\ last.req.route = "signup"
    /\ last.resp.status = 400
    /\ Registered(last.req.email)
    /\ Len(users) = 1 /\ Len(otp_codes) = 1

\* C3: a signup for an email without a user document goes on to insert one
\* user for it, unverified, whose password is a digest that is not the
\* plaintext and verifies against it; it then inserts one challenge for the
\* email and answers 200 with a body that has no token.
C3_SignupCreates ==
    [][\A w \in Workers :
          /\ SignupFind(w) /\ ~Registered(Taken(w).email)
             => pc'[w] = "signup_insert_user" /\ users' = users /\ otp_codes' = otp_codes
          /\ Steps(w, "signup_insert_user")
             => /\ Len(users') = Len(users) + 1
                /\ SubSeq(users', 1, Len(users)) = users
                /\ LET u == users'[Len(users')]
                   IN  /\ u.email = req[w].email /\ u.name = req[w].name
                       /\ u.is_verified = FALSE
                       /\ u.password # req[w].password
                       /\ verify_password(req[w].password, u.password)
                /\ otp_codes' = otp_codes
                /\ pc'[w] = "signup_insert_otp"
          /\ Steps(w, "signup_insert_otp")
             => /\ Len(otp_codes') = Len(otp_codes) + 1
                /\ SubSeq(otp_codes', 1, Len(otp_codes)) = otp_codes
                /\ otp_codes'[Len(otp_codes')].email = req[w].email
                /\ users' = users
                /\ last'.req = req[w]
                /\ last'.resp.status = 200
                /\ last'.resp.body.success = TRUE
                /\ "token" \notin DOMAIN last'.resp.body
                /\ pc'[w] = "idle"]_vars

C3_Witness ==
    /\ last.req.route = "signup"
    /\ last.resp.status = 200
    /\ \E i \in 1 .. Len(users) :
          users[i].email = last.req.email /\ ~users[i].is_verified
          /\ verify_password(last.req.password, users[i].password)
    /\ \E i \in 1 .. Len(otp_codes) : otp_codes[i].email = last.req.email

\* the challenges of an email that no other challenge of it was created after
MostRecent(email) ==
    {c \in {otp_codes[i] : i \in 1 .. Len(otp_codes)} :
        /\ c.email = email
        /\ ~\E i \in 1 .. Len(otp_codes) :
              otp_codes[i].email = email /\ otp_codes[i].created_at > c.created_at}

\* the code is the one a most recent challenge of the email stores, and that
\* challenge's expiry has not passed
MatchesUnexpired(email, otp) ==
    \E c \in MostRecent(email) :
        /\ ~(c.expires_at < now)
        /\ \E salt \in Salts : c.otp = Bcrypt(otp, salt)

C5_ExpiredAtOrAfterExpiry ==
    [][\A w \in Workers :
          VerifyFind(w) /\ (\E c \in MostRecent(Taken(w).email) : now >= c.expires_at)
          => /\ last'.resp = [status |-> 400, detail |-> "OTP expired"]
             /\ pc' = pc
             /\ users' = users]_vars

\* the user document a lookup by email yields: the first of that email
FirstUser(coll, email) ==
    coll[CHOOSE i \in 1 .. Len(coll) :
            coll[i].email = email /\ \A j \in 1 .. i - 1 : coll[j].email # email]

\* the password is the one the user of that email signed up with
RightPassword(email, password) ==
    /\ Registered(email)
    /\ \E salt \in Salts : FirstUser(users, email).password = Bcrypt(password, salt)

\* C6: a login for an email without a user and a login with a password that
\* is not the user's are answered alike, 400 "Invalid credentials", and
\* write nothing: no challenge, no change to a user, no token.
C6_InvalidCredentials ==
    [][\A w \in Workers :
          LoginFind(w) /\ ~RightPassword(Taken(w).email, Taken(w).password)
          => /\ last'.resp = [status |-> 400, detail |-> "Invalid credentials"]
             /\ users' = users
             /\ otp_codes' = otp_codes
             /\ pc' = pc]_vars

C6_Witness ==
    /\ last.req.route = "login"
    /\ last.resp = [status |-> 400, detail |-> "Invalid credentials"]
    /\ Registered(last.req.email)
    /\ ~RightPassword(last.req.email, last.req.password)

\* C7: a login with the right password for a user that is not verified
\* inserts one challenge for the email and answers 200 with verified false
\* and no token; a login answer that carries a token is for a verified user.
C7_LoginUnverified ==
    [][\A w \in Workers :
          /\ ( /\ LoginFind(w)
               /\ RightPassword(Taken(w).email, Taken(w).password)
               /\ ~FirstUser(users, Taken(w).email).is_verified )
             => /\ pc'[w] = "login_insert_otp"
                /\ last' = last
                /\ users' = users /\ otp_codes' = otp_codes
          /\ Steps(w, "login_insert_otp")
             => /\ Len(otp_codes') = Len(otp_codes) + 1
                /\ SubSeq(otp_codes', 1, Len(otp_codes)) = otp_codes
                /\ otp_codes'[Len(otp_codes')].email = req[w].email
                /\ users' = users
                /\ last'.req = req[w]
                /\ last'.resp.status = 200
                /\ last'.resp.body.verified = FALSE
                /\ "token" \notin DOMAIN last'.resp.body
          /\ (last'.req.route = "login" /\ HasToken(last'.resp))
             => /\ Registered(last'.req.email)
                /\ FirstUser(users', last'.req.email).is_verified]_vars

C7_Witness ==
    /\ last.req.route = "login"
    /\ last.resp.status = 200
    /\ last.resp.body.verified = FALSE
    /\ ~FirstUser(users, last.req.email).is_verified
    /\ Len(otp_codes) = 2
    /\ otp_codes[2].email = last.req.email

\* C8: a login with the right password for a verified user is answered 200
\* with verified true, a token that decodes to the user's id and email, and
\* the projection id, name, email of the user; it inserts no challenge.
C8_LoginVerified ==
    [][\A w \in Workers :
          ( /\ LoginFind(w)
            /\ RightPassword(Taken(w).email, Taken(w).password)
            /\ FirstUser(users, Taken(w).email).is_verified )
          => LET u == FirstUser(users, Taken(w).email)
                 body == last'.resp.body
             IN  /\ last'.resp.status = 200
                 /\ body.verified = TRUE
                 /\ decode_jwt(body.token, now).ok
                 /\ decode_jwt(body.token, now).payload.user_id = ToString(u._id)
                 /\ decode_jwt(body.token, now).payload.email = u.email
                 /\ body.user = [id |-> ToString(u._id), name |-> u.name, email |-> u.email]
                 /\ otp_codes' = otp_codes
                 /\ users' = users
                 /\ pc' = pc]_vars

C8_Witness ==
    /\ last.req.route = "login"
    /\ HasToken(last.resp)
    /\ last.resp.body.verified = TRUE
    /\ FirstUser(users, last.req.email).is_verified

\* the tokens issuance can have produced by now
Minted ==
    { <<[alg |-> "HS256", typ |-> "JWT"], payload,
        <<"hmac", "dev-secret-key", [alg |-> "HS256", typ |-> "JWT"], payload>>>> :
        payload \in { [user_id |-> ToString(users[i]._id), email |-> users[i].email,
                       exp |-> t + 60 * 24] :
                         i \in 1 .. Len(users), t \in {x \in Instants : x <= now} } }

\* the header is a bearer scheme word, whitespace, and a minted token whose
\* expiry lies ahead
GoodHeader(h) ==
    /\ Len(h) = 3
    /\ ~h[1].ws /\ h[2].ws /\ ~h[3].ws
    /\ h[1].v \in {<<"Bearer">>, <<"bearer">>, <<"BEARER">>}
    /\ h[3].v \in Minted
    /\ now < h[3].v[2].exp

\* C9: the guard lets a request through, with the user_id and email the
\* token was issued for, when the header is a bearer scheme word and an
\* issued token whose expiry (issuance + 24 hours) lies ahead; every other
\* header (expired token, altered signature, missing claim, no header, other
\* scheme, no token) is answered 401 and the handler body does not run.
C9_SessionGuard ==
    [][\A w \in Workers :
          /\ ConversationsAuth(w)
             => LET h == Taken(w).authorization
                IN  IF GoodHeader(h)
                    THEN /\ pc'[w] = "conversations_find"
                         /\ loc'[w].user.user_id = h[3].v[2].user_id
                         /\ loc'[w].user.email = h[3].v[2].email
                         /\ last' = last
                    ELSE /\ last'.resp.status = 401
                         /\ pc' = pc
          /\ HasToken(last'.resp) => last'.resp.body.token \in Minted']_vars

C9_Witness ==
    /\ last.req.route = "conversations"
    /\ last.resp.status = 401
    /\ now = 60 * 24
    /\ Len(last.req.authorization) = 3
    /\ last.req.authorization[1].v = <<"Bearer">>
    /\ last.req.authorization[3].v \in Minted
    /\ \E w \in Workers :
          /\ pc[w] = "conversations_find"
          /\ req[w].authorization[3].v \in Minted
          /\ req[w].authorization[1].v = <<"bearer">>

\* C10: a user document stays in place with its id and email, a verified
\* user stays verified, and a user becomes verified only in the update step
\* of a verify-otp request for its email that passed the checks.
C10_ForwardOnly ==
    [][/\ Len(users') >= Len(users)
       /\ \A i \in 1 .. Len(users) :
             /\ users'[i]._id = users[i]._id
             /\ users'[i].email = users[i].email
             /\ users[i].is_verified => users'[i].is_verified
             /\ (~users[i].is_verified /\ users'[i].is_verified)
                => \E w \in Workers :
                      /\ Steps(w, "verify_update")
                      /\ req[w].route = "verify-otp"
                      /\ req[w].email = users[i].email
       /\ \A i \in Len(users) + 1 .. Len(users') : ~users'[i].is_verified]_vars

C10_Witness ==
    /\ Len(users) = 2
    /\ users[1].email # users[2].email
    /\ ~users[1].is_verified /\ users[2].is_verified
    /\ \A w \in Workers : ~Running(w)

\* C11: no step of verify-otp touches otp_codes; after a verify-otp answered
\* 200, another one with the same email and code, made while the expiry of
\* the most recent challenge of the email lies ahead, passes the checks too
\* and is answered 200 with a token; its update finds the user verified and
\* leaves it verified, changing nothing but updated_at.
C11_VerifyRepeatable ==
    [][\A w \in Workers :
          /\ (VerifyFind(w) \/ Steps(w, "verify_update") \/ Steps(w, "verify_fetch"))
             => otp_codes' = otp_codes
          /\ ( /\ VerifyFind(w)
               /\ last.req.route = "verify-otp" /\ last.resp.status = 200
               /\ Taken(w) = last.req
               /\ \E c \in MostRecent(last.req.email) : now < c.expires_at )
             => pc'[w] = "verify_update"
          /\ (Steps(w, "verify_update") /\ FirstUser(users, req[w].email).is_verified)
             => /\ Len(users') = Len(users)
                /\ \A i \in 1 .. Len(users) :
                      /\ users'[i].is_verified = users[i].is_verified
                      /\ [users'[i] EXCEPT !.updated_at = users[i].updated_at] = users[i]
          /\ (Steps(w, "verify_fetch") /\ last.req = req[w] /\ last.resp.status = 200)
             => /\ last'.resp.status = 200
                /\ "token" \in DOMAIN last'.resp.body
                /\ last'.resp.body.user = last.resp.body.user]_vars

\* a second verify-otp has passed its checks on the one challenge there is,
\* after the first was answered 200 and marked the user verified
C11_Witness ==
    /\ last.req.route = "verify-otp" /\ last.resp.status = 200
    /\ Len(otp_codes) = 1
    /\ FirstUser(users, last.req.email).is_verified
    /\ \E w \in Workers : pc[w] = "verify_fetch" /\ req[w] = last.req
    /\ now > last.resp.body.token[2].exp - 60 * 24

\* C12: a resend-otp for an email without a user is answered 400 "Email not
\* registered" and writes nothing; for an email with a user, verified or
\* not, it inserts one challenge for the email after the ones there are,
\* leaves those and the users as they are, and answers 200.
C12_ResendOtp ==
    [][\A w \in Workers :
          /\ (ResendFind(w) /\ ~Registered(Taken(w).email))
             => /\ last'.resp = [status |-> 400, detail |-> "Email not registered"]
                /\ users' = users /\ otp_codes' = otp_codes /\ pc' = pc
          /\ (ResendFind(w) /\ Registered(Taken(w).email))
             => /\ pc'[w] = "resend_insert"
                /\ users' = users /\ otp_codes' = otp_codes
          /\ Steps(w, "resend_insert")
             => /\ Len(otp_codes') = Len(otp_codes) + 1
                /\ SubSeq(otp_codes', 1, Len(otp_codes)) = otp_codes
                /\ otp_codes'[Len(otp_codes')].email = req[w].email
                /\ users' = users
                /\ last'.req = req[w]
                /\ last'.resp.status = 200
                /\ last'.resp.body.success = TRUE]_vars

\* a resend-otp for a verified user has added a second challenge
C12_Witness ==
    /\ last.req.route = "resend-otp" /\ last.resp.status = 200
    /\ FirstUser(users, last.req.email).is_verified
    /\ Len(otp_codes) = 2
    /\ otp_codes[1].email = last.req.email /\ otp_codes[2].email = last.req.email

(* ------------------- one client, one request at a time ------------------ *)

\* the request the client of the walk-through sends next: a signup, then a
\* login with the credentials of the signup, then, within five minutes of
\* the challenge that login created, a verify-otp with the code, then a
\* login with the credentials again; nothing after that
Script(r) ==
    CASE last = NoLast
           -> r.route = "signup"
      [] last.req.route = "signup" /\ last.resp.status = 200
           -> r = [route |-> "login", email |-> last.req.email,
                   password |-> last.req.password]
      [] last.req.route = "login" /\ last.resp.status = 200 /\ ~HasToken(last.resp)
           -> /\ r = [route |-> "verify-otp", email |-> last.req.email, otp |-> "123456"]
              /\ \E c \in MostRecent(last.req.email) : now <= c.created_at + OTP_EXPIRES_MINUTES
      [] last.req.route = "verify-otp" /\ last.resp.status = 200
           -> /\ r.route = "login" /\ r.email = last.req.email
              /\ RightPassword(r.email, r.password)
      [] OTHER -> FALSE

\* the client sends its next request when the answer to the last one is in
ScenarioRequest(w) ==
    /\ \A v \in Workers : ~Running(v)
    /\ (SignupFind(w) \/ LoginFind(w) \/ VerifyFind(w))
    /\ Script(Taken(w))

\* the handler of the request goes on
ScenarioStep(w) ==
    \/ SignupInsertUser(w)
    \/ SignupInsertOtp(w)
    \/ LoginInsertOtp(w)
    \/ VerifyUpdate(w)
    \/ VerifyFetch(w)

ScenarioNext ==
    \/ \E w \in Workers : ScenarioRequest(w)
    \/ \E w \in Workers : ScenarioStep(w)
    \/ Tick

Scenario == Init /\ [][ScenarioNext]_vars

\* C13: in the walk-through signup, login, verify-otp, login of one client
\* from an unregistered email, the answers are, in this order: 200 with
\* success and no token; 200 with verified false and no token; 200 with
\* success and a token; 200 with verified true and a token.
C13_WalkThrough ==
    [][last' # last =>
          /\ last = NoLast
             => /\ last'.req.route = "signup"
                /\ last'.resp.status = 200
                /\ last'.resp.body.success = TRUE
                /\ "token" \notin DOMAIN last'.resp.body
          /\ last.req.route = "signup"
             => /\ last'.req.route = "login"
                /\ last'.resp.status = 200
                /\ last'.resp.body.verified = FALSE
                /\ "token" \notin DOMAIN last'.resp.body
          /\ (last.req.route = "login" /\ ~HasToken(last.resp))
             => /\ last'.req.route = "verify-otp"
                /\ last'.resp.status = 200
                /\ last'.resp.body.success = TRUE
                /\ "token" \in DOMAIN last'.resp.body
          /\ last.req.route = "verify-otp"
             => /\ last'.req.route = "login"
                /\ last'.resp.status = 200
                /\ last'.resp.body.verified = TRUE
                /\ "token" \in DOMAIN last'.resp.body]_vars

\* the walk-through has reached its last answer
C13_Witness ==
    /\ last.req.route = "login"
    /\ HasToken(last.resp)
    /\ last.resp.body.verified = TRUE
    /\ Len(users) = 1 /\ Len(otp_codes) = 2

(* ----------------------------- token lifetime --------------------------- *)

\* the guard lets a request carrying the token through at time t
Accepted(token, t) ==
    get_current_user(<<Word(<<"Bearer">>), Ws, Word(token)>>, t).status = 200

\* the guard treats the token by its expiry alone: it accepts it now exactly
\* when the expiry lies ahead, and turns it down at the expiry and after it
ByExpiryOnly(token) ==
    /\ Accepted(token, now) <=> now < token[2].exp
    /\ \A t \in {token[2].exp, token[2].exp + 1, token[2].exp + JWT_EXPIRES_MINUTES} :
           ~Accepted(token, t)

\* C14: an issued token stays an issued token whatever signup, login,
\* verify-otp and resend-otp steps follow, and in every reachable state the
\* guard accepts each issued token exactly while the current time is before
\* its expiry, and turns it down at its expiry and at the times after it.
C14_ExpiryOnly ==
    /\ [](\A token \in Minted : ByExpiryOnly(token))
    /\ [][/\ Minted \subseteq Minted'
          /\ HasToken(last'.resp) /\ last' # last => last'.resp.body.token \in Minted']_vars

\* a token issued at time 0 is turned down at its expiry, and a token issued
\* later is accepted, while a signup that put its user in is under way and
\* the user of the tokens has been verified a second time
C14_Witness ==
    /\ now = JWT_EXPIRES_MINUTES
    /\ HasToken(last.resp)
    /\ last.resp.body.token[2].exp = JWT_EXPIRES_MINUTES
    /\ ~Accepted(last.resp.body.token, now)
    /\ \E token \in Minted :
          /\ token[2].email = last.resp.body.token[2].email
          /\ Accepted(token, now)
    /\ \E w \in Workers : pc[w] = "signup_insert_otp"

(* ------------------------- conversations listing ------------------------ *)

\* the positions of the conversations of a user
Owned(user_id) == {i \in 1 .. Len(conversations) : conversations[i].user_id = user_id}

\* C15: a conversations request whose header passed the guard is answered
\* 200 with exactly the conversations whose user_id is the user_id claim of
\* the token in the header, each once and none of another user, the later
\* updated first; a request whose header is not a valid bearer header is
\* answered 401 without a body and the listing does not run.
C15_ConversationsScoped ==
    [][\A w \in Workers :
          /\ Steps(w, "conversations_find")
             => LET claim == req[w].authorization[3].v[2].user_id
                    items == last'.resp.body.conversations
                IN  /\ last'.req = req[w]
                    /\ last'.resp.status = 200
                    /\ last'.resp.body.success = TRUE
                    /\ Len(items) = Cardinality(Owned(claim))
                    /\ \A i \in Owned(claim) :
                           \E k \in 1 .. Len(items) :
                               items[k] = [id |-> ToString(conversations[i]._id),
                                           user_id |-> claim,
                                           title |-> conversations[i].title,
                                           updated_at |-> conversations[i].updated_at]
                    /\ \A k \in 1 .. Len(items) : items[k].user_id = claim
                    /\ \A a, b \in 1 .. Len(items) :
                           a < b => items[a].updated_at >= items[b].updated_at
          /\ ConversationsAuth(w)
             => IF GoodHeader(Taken(w).authorization)
                THEN /\ pc'[w] = "conversations_find"
                     /\ last' = last
                ELSE /\ pc' = pc
                     /\ last'.resp.status = 401
                     /\ "body" \notin DOMAIN last'.resp]_vars

\* the two conversations of user 1 were listed, the later one first, and
\* the conversation of the other user, which is in the store, was not
C15_Witness ==
    /\ last.req.route = "conversations"
    /\ last.resp.status = 200
    /\ Len(last.resp.body.conversations) = 2
    /\ last.resp.body.conversations[1].updated_at > last.resp.body.conversations[2].updated_at
    /\ \E i \in 1 .. Len(conversations) :
          conversations[i].user_id # last.req.authorization[3].v[2].user_id

(* ------------------------------ last login ------------------------------ *)

\* C16: no step of a login request, in the branch that creates a challenge
\* or in the branch that issues a token, changes the users collection, and
\* no step of any request leaves a user document with a last_login field.
C16_LoginLeavesUsers ==
    [][/\ \A w \in Workers : LoginFind(w) \/ LoginInsertOtp(w) => users' = users
       /\ \A i \in 1 .. Len(users') : "last_login" \notin DOMAIN users'[i]]_vars

\* a verified user logged in at a later time than its last update and got a
\* token; the document still carries the time of the verification
C16_Witness ==
    /\ last.req.route = "login"
    /\ HasToken(last.resp)
    /\ last.resp.body.token[2].exp = now + JWT_EXPIRES_MINUTES
    /\ now = JWT_EXPIRES_MINUTES
    /\ \E i \in 1 .. Len(users) :
          /\ users[i].email = last.req.email
          /\ users[i].is_verified
          /\ users[i].updated_at < now
          /\ DOMAIN users[i] = {"_id", "name", "email", "password", "is_verified",
                                "created_at", "updated_at"}

(* ----------------------- challenges and their users --------------------- *)

\* C17: in every reachable state each challenge in otp_codes has the email
\* of a user in users; so a verify-otp handler that has passed the not-found,
\* expiry and code checks has a user to mark and to fetch, and no request
\* has been answered with the 500 of a missing user.
C17_ChallengeHasUser ==
    /\ \A i \in 1 .. Len(otp_codes) : Registered(otp_codes[i].email)
    /\ \A w \in Workers :
          pc[w] \in {"verify_update", "verify_fetch"} => Registered(req[w].email)
    /\ last.resp.status # 500

\* two users and a challenge of each; a verify-otp for one has been answered
\* with a token while a verify-otp for the other is about to fetch its user
C17_Witness ==
    /\ Len(users) = 2
    /\ Len(otp_codes) = 2
    /\ otp_codes[1].email # otp_codes[2].email
    /\ last.req.route = "verify-otp"
    /\ HasToken(last.resp)
    /\ \E w \in Workers : pc[w] = "verify_fetch" /\ req[w].email # last.req.email

(* ---------------------------- token issuance ---------------------------- *)

\* C18: when a response carries a token, the request is a login or a
\* verify-otp, and at that moment the first user document of the email of
\* the request exists, is verified, and has the id and the email the token
\* carries; signup, resend-otp, a login with a wrong password or of an
\* unverified user, and a verify-otp with a wrong code or answered with an
\* error never carry a token.
C18_TokenForVerifiedUser ==
    [][last' # last =>
          LET r == last'.req
              token == last'.resp.body.token
          IN  /\ HasToken(last'.resp)
                 => /\ r.route \in {"login", "verify-otp"}
                    /\ \E i \in 1 .. Len(users') :
                          /\ \A j \in 1 .. i - 1 : users'[j].email # r.email
                          /\ users'[i].email = r.email
                          /\ users'[i].is_verified
                          /\ token[2].user_id = ToString(users'[i]._id)
                          /\ token[2].email = users'[i].email
              /\ r.route \in {"signup", "resend-otp", "conversations"}
                 => ~HasToken(last'.resp)
              /\ last'.resp.status # 200 => "body" \notin DOMAIN last'.resp
              /\ (r.route = "login" /\ ~RightPassword(r.email, r.password))
                 => ~HasToken(last'.resp)
              /\ (r.route = "login" /\ \E i \in 1 .. Len(users) :
                                         users[i].email = r.email /\ ~users[i].is_verified
                                         /\ \A j \in 1 .. i - 1 : users[j].email # r.email)
                 => ~HasToken(last'.resp)
              /\ (r.route = "verify-otp" /\ r.otp # RAW_OTP) => ~HasToken(last'.resp)]_vars

\* a verify-otp answered with a token of the user it has just marked while
\* the other user, unverified, has a challenge of its own
C18_Witness ==
    /\ last.req.route = "verify-otp"
    /\ HasToken(last.resp)
    /\ \E i, j \in 1 .. Len(users) :
          /\ users[i].email = last.req.email
          /\ users[i].is_verified
          /\ users[i].updated_at = now
          /\ last.resp.body.token[2].user_id = ToString(users[i]._id)
          /\ ~users[j].is_verified
          /\ \E k \in 1 .. Len(otp_codes) : otp_codes[k].email = users[j].email

(* ------------------------ the flow without login ------------------------ *)

\* the requests of clients that never log in
NoLoginNext ==
    \/ \E w \in Workers : SignupFind(w)
    \/ \E w \in Workers : SignupInsertUser(w)
    \/ \E w \in Workers : SignupInsertOtp(w)
    \/ \E w \in Workers : VerifyFind(w)
    \/ \E w \in Workers : VerifyUpdate(w)
    \/ \E w \in Workers : VerifyFetch(w)
    \/ \E w \in Workers : ResendFind(w)
    \/ \E w \in Workers : ResendInsert(w)
    \/ Tick

NoLogin == Init /\ [][NoLoginNext]_vars

\* C19: with no login request ever made, every challenge stores a hash of
\* the fixed code 123456; a verify-otp request carries no password; when the
\* last answer is the 200 of a resend-otp for an email and a verify-otp for
\* that email with the fixed code arrives no later than five minutes after
\* the challenge the resend-otp created, the request passes its checks; and
\* a verify-otp with the fixed code that has passed its checks ends with a
\* token the guard accepts, carrying the id and the email of the user.
C19_FixedCodeTakeover ==
    [][/\ \A i \in 1 .. Len(otp_codes') : verify_password("123456", otp_codes'[i].otp)
       /\ \A w \in Workers :
             /\ VerifyFind(w) => "password" \notin DOMAIN Taken(w)
             /\ ( /\ VerifyFind(w)
                  /\ last.req.route = "resend-otp" /\ last.resp.status = 200
                  /\ Taken(w) = [route |-> "verify-otp", email |-> last.req.email,
                                 otp |-> "123456"]
                  /\ now <= otp_codes[Len(otp_codes)].created_at + 5 )
                => /\ otp_codes[Len(otp_codes)].email = last.req.email
                   /\ pc'[w] = "verify_update"
                   /\ last' = last
             /\ (Steps(w, "verify_fetch") /\ req[w].otp = "123456")
                => /\ last'.req = req[w]
                   /\ HasToken(last'.resp)
                   /\ Accepted(last'.resp.body.token, now)
                   /\ last'.resp.body.token[2].email = req[w].email
                   /\ last'.resp.body.token[2].user_id
                         = ToString(FirstUser(users, req[w].email)._id)]_vars

\* one user, its challenge of signup and a later one that only a resend-otp
\* can have created; a verify-otp with the fixed code got the token of the
\* user five minutes after the later challenge was created
C19_Witness ==
    /\ Len(users) = 1
    /\ Len(otp_codes) = 2
    /\ otp_codes[2].email = users[1].email
    /\ last.req = [route |-> "verify-otp", email |-> users[1].email, otp |-> "123456"]
    /\ HasToken(last.resp)
    /\ last.resp.body.token[2].user_id = ToString(users[1]._id)
    /\ last.resp.body.token[2].exp = otp_codes[2].expires_at + JWT_EXPIRES_MINUTES
    /\ otp_codes[2].created_at = 0

====
